---- MODULE Spec2Model ----
(***************************************************************************)
(* A model of webviz_ert/data_loader/__init__.py: the connection registry  *)
(* (get_connection_info), the per-server DataLoader instance table         *)
(* (DataLoader.__new__), the GraphQL and REST helpers (_query, _get) and   *)
(* the domain operations built on them.                                    *)
(*                                                                         *)
(* Three specifications share the module:                                  *)
(*   Spec      sequential calls of DataLoader(...), get_connection_info    *)
(*             and get_data_loader;                                        *)
(*   SpecOps   the domain operations of one DataLoader against a server    *)
(*             whose answers are chosen nondeterministically;              *)
(*   SpecRace  several callers of get_data_loader whose steps interleave.  *)
(***************************************************************************)
EXTENDS Integers, Sequences, FiniteSets, TLC

VARIABLES
    connection_info_map,  \* module global, line 12: project id -> info
    get_info_calls,       \* provider side: number of get_info calls per project id
    resolutions,          \* history of get_connection_info calls
    _instances,           \* DataLoader._instances, line 113: (baseurl, token) -> object
    objects,              \* the DataLoader objects allocated so far; identity = index
    constructions,        \* history of DataLoader(baseurl, token) calls
    self,                 \* SpecOps: the DataLoader whose operations are called
    op,                   \* SpecOps: the operation called and its arguments
    response,             \* SpecOps: what the server answered to that call
    requests,             \* SpecOps: the HTTP requests the call issued
    logged,               \* SpecOps: the exceptions the call gave to logger.error
    ret,                  \* SpecOps: how the call ended (a value, or an exception)
    pc,                   \* SpecRace: the line each caller of get_data_loader is at
    frame                 \* SpecRace: each caller's local variables

regVars == <<connection_info_map, get_info_calls, resolutions,
             _instances, objects, constructions>>
opsVars == <<self, op, response, requests, logged, ret>>
raceVars == <<pc, frame>>
vars == <<regVars, opsVars, raceVars>>

-----------------------------------------------------------------------------
(* Bounds and input sets *)

MaxCalls == 3

None == "<None>"

BaseUrls == {"http://a", "http://b"}
Tokens == {None, "tok"}
ProjectIds == {None, "proj"}

\* What the external provider get_info may hand back: baseurl and an
\* auth pair (user, token).
ProvidedInfos ==
    { [baseurl |-> b, auth |-> <<"__token__", t>>] : b \in BaseUrls, t \in {"tok", "tok2"} }

EmptyMap == << >>

-----------------------------------------------------------------------------
(* get_connection_info, lines 15-23 *)

InfoCachedSkippingNone(project_id, map) ==
    project_id # None /\ project_id \in DOMAIN map

\* line 18: project_id in connection_info_map
InfoCached(project_id, map) == project_id \in DOMAIN map

\* lines 18-23 as a function of the globals, the argument and the value the
\* provider returns if it is asked.
ConnectionInfo(map, counts, project_id, provided) ==
    IF InfoCached(project_id, map)
    THEN [map |-> map, counts |-> counts, info |-> map[project_id], looked_up |-> FALSE]
    ELSE LET info == [provided EXCEPT !.auth = provided.auth[2]]
             stored == [p \in DOMAIN map \cup {project_id} |->
                          IF p = project_id THEN info ELSE map[p]]
         IN [map |-> stored,
             counts |-> [counts EXCEPT ![project_id] = @ + 1],
             info |-> stored[project_id],
             looked_up |-> TRUE]

-----------------------------------------------------------------------------
(* DataLoader.__new__, lines 119-128 *)

InstanceKnownNever(key, table) == FALSE

\* line 120: (baseurl, token) in cls._instances
InstanceKnown(key, table) == key \in DOMAIN table

\* lines 123-126: the fresh object
NewObject(baseurl, token) ==
    [baseurl |-> baseurl, token |-> token, _graphql_cache |-> EmptyMap]

\* one instance for the whole process, whatever the key
NewLoaderGlobal(table, heap, baseurl, token) ==
    IF Len(heap) > 0
    THEN [table |-> table, heap |-> heap, loader |-> 1, created |-> FALSE]
    ELSE [table |-> (<<baseurl, token>> :> 1),
          heap |-> <<NewObject(baseurl, token)>>,
          loader |-> 1,
          created |-> TRUE]

\* lines 119-128 as a function of the class table, the heap and the arguments
NewLoader(table, heap, baseurl, token) ==
    LET key == <<baseurl, token>> IN
    IF InstanceKnown(key, table)
    THEN [table |-> table, heap |-> heap, loader |-> table[key], created |-> FALSE]
    ELSE LET loader == Len(heap) + 1 IN
         [table |-> [k \in DOMAIN table \cup {key} |->
                        IF k = key THEN loader ELSE table[k]],
          heap |-> Append(heap, NewObject(baseurl, token)),
          loader |-> loader,
          created |-> TRUE]

-----------------------------------------------------------------------------
(* Spec: sequential calls *)

CallsMade == Len(resolutions) + Len(constructions)

\* DataLoader(baseurl, token)
DataLoader_new ==
    \E baseurl \in BaseUrls, token \in Tokens :
        LET r == NewLoader(_instances, objects, baseurl, token) IN
        /\ CallsMade < MaxCalls
        /\ _instances' = r.table
        /\ objects' = r.heap
        /\ constructions' = Append(constructions,
               [key |-> <<baseurl, token>>, loader |-> r.loader, created |-> r.created])
        /\ UNCHANGED <<connection_info_map, get_info_calls, resolutions>>
        /\ UNCHANGED <<opsVars, raceVars>>

\* get_connection_info(project_id)
get_connection_info ==
    \E project_id \in ProjectIds, provided \in ProvidedInfos :
        LET r == ConnectionInfo(connection_info_map, get_info_calls, project_id, provided) IN
        /\ CallsMade < MaxCalls
        /\ connection_info_map' = r.map
        /\ get_info_calls' = r.counts
        /\ resolutions' = Append(resolutions,
               [project_id |-> project_id, info |-> r.info, looked_up |-> r.looked_up])
        /\ UNCHANGED <<_instances, objects, constructions>>
        /\ UNCHANGED <<opsVars, raceVars>>

\* get_data_loader(project_id), lines 315-316
get_data_loader ==
    \E project_id \in ProjectIds, provided \in ProvidedInfos :
        LET c == ConnectionInfo(connection_info_map, get_info_calls, project_id, provided)
            r == NewLoader(_instances, objects, c.info.baseurl, c.info.auth)
        IN
        /\ CallsMade + 1 < MaxCalls
        /\ connection_info_map' = c.map
        /\ get_info_calls' = c.counts
        /\ resolutions' = Append(resolutions,
               [project_id |-> project_id, info |-> c.info, looked_up |-> c.looked_up])
        /\ _instances' = r.table
        /\ objects' = r.heap
        /\ constructions' = Append(constructions,
               [key |-> <<c.info.baseurl, c.info.auth>>, loader |-> r.loader,
                created |-> r.created])
        /\ UNCHANGED <<opsVars, raceVars>>

Next == DataLoader_new \/ get_connection_info \/ get_data_loader

\* No domain operation is called in Spec, and no caller is interleaved.
Init ==
    /\ connection_info_map = EmptyMap
    /\ get_info_calls = [p \in ProjectIds |-> 0]
    /\ resolutions = << >>
    /\ _instances = EmptyMap
    /\ objects = << >>
    /\ constructions = << >>
    /\ self = NewObject("http://a", None)
    /\ op = [name |-> "none"]
    /\ response = [raised |-> FALSE, status_code |-> 0,
                   content |-> [fmt |-> "empty", payload |-> [t |-> "null"]]]
    /\ requests = << >>
    /\ logged = << >>
    /\ ret = [ok |-> TRUE, val |-> [t |-> "null"]]
    /\ pc = << >>
    /\ frame = << >>

Spec == Init /\ [][Next]_vars

-----------------------------------------------------------------------------
(* Python values the operations handle *)

\* How a call or an expression ends: with a value, or with an exception.
Ok(v) == [ok |-> TRUE, val |-> v]
Raise(e) == [ok |-> FALSE, exc |-> e, msg |-> << >>]
\* raise e(msg): msg lists what the message is formatted from
RaiseMsg(e, msg) == [ok |-> FALSE, exc |-> e, msg |-> msg]

\* The classes an exception is an instance of.  DataLoaderException derives
\* from Exception only (line 108); requests' ConnectionError is an OSError;
\* json.JSONDecodeError, pyarrow's ArrowInvalid and pandas' EmptyDataError
\* are ValueErrors; KeyError and TypeError are the builtins.
ExcBases(e) ==
    CASE e = "DataLoaderException" -> {"DataLoaderException", "Exception"}
      [] e = "RuntimeError"        -> {"RuntimeError", "Exception"}
      [] e = "TypeError"           -> {"TypeError", "Exception"}
      [] e = "KeyError"            -> {"KeyError", "LookupError", "Exception"}
      [] e = "JSONDecodeError"     -> {"JSONDecodeError", "ValueError", "Exception"}
      [] e = "ArrowInvalid"        -> {"ArrowInvalid", "ValueError", "Exception"}
      [] e = "EmptyDataError"      -> {"EmptyDataError", "ValueError", "Exception"}
      [] e = "ConnectionError"     -> {"ConnectionError", "RequestException",
                                       "OSError", "Exception"}

\* except cls as e: does the clause take exception e?
Catches(cls, e) == cls \in ExcBases(e)

\* try: r  except cls as e: logger.error(e); return empty
LogAndDefault(cls, empty, r) ==
    IF r.ok \/ ~Catches(cls, r.exc)
    THEN [logged |-> << >>, res |-> r]
    ELSE [logged |-> <<[exc |-> r.exc, msg |-> r.msg]>>, res |-> Ok(empty)]

\* JSON documents as Python holds them after decoding.
JNull == [t |-> "null"]
JNum(n) == [t |-> "num", num |-> n]
JStr(s) == [t |-> "str", str |-> s]
JArr(items) == [t |-> "arr", items |-> items]
JObj(fields) == [t |-> "obj", fields |-> fields]
\* resp.content, kept when the body does not decode (line 148)
Bytes == [t |-> "bytes"]

EmptyDict == JObj(EmptyMap)     \* dict()
EmptyList == JArr(<< >>)        \* list()

\* v[key] with a string key: a dict looks the key up (KeyError when it is
\* missing); a list, a str, a number and None all raise TypeError.
GetItem(v, key) ==
    IF v.t = "obj"
    THEN IF key \in DOMAIN v.fields THEN Ok(v.fields[key]) ELSE Raise("KeyError")
    ELSE Raise("TypeError")

\* {**a, **b}: the keys of both, b's value where both have the key
MergeDicts(a, b) ==
    [k \in DOMAIN a \cup DOMAIN b |-> IF k \in DOMAIN b THEN b[k] ELSE a[k]]

\* json.loads(v): v must be a str (TypeError otherwise) holding a JSON text
\* (JSONDecodeError otherwise).
JsonLoads(v) ==
    IF v.t # "str" THEN Raise("TypeError")
    ELSE CASE v.str = "{}" -> Ok(EmptyDict)
           [] v.str = "{\"COEFF\": 1}" -> Ok(JObj([COEFF |-> JNum(1)]))
           [] v.str = "[]" -> Ok(EmptyList)
           [] OTHER -> Raise("JSONDecodeError")

-----------------------------------------------------------------------------
(* HTTP responses *)

EmptyBody == [fmt |-> "empty", payload |-> JNull]       \* zero bytes
JsonBody(doc) == [fmt |-> "json", payload |-> doc]      \* a JSON text
ParquetBody(table) == [fmt |-> "parquet", payload |-> table]
CsvBody(csv) == [fmt |-> "csv", payload |-> csv]

\* requests.get / requests.post raised instead of answering
NetworkFailure == [raised |-> TRUE, status_code |-> 0, content |-> EmptyBody]
Answer(status, body) == [raised |-> FALSE, status_code |-> status, content |-> body]

\* resp.json()
RespJson(resp) ==
    IF resp.content.fmt = "json" THEN Ok(resp.content.payload)
    ELSE Raise("JSONDecodeError")

\* params=None against params={...}
NoParams == [given |-> FALSE, items |-> EmptyMap]
Params(items) == [given |-> TRUE, items |-> items]

-----------------------------------------------------------------------------
(* _get, lines 155-173 *)

GetTrustingStatus(loader, url, headers, params, resp) ==
    [request |-> [method |-> "GET", base |-> loader.baseurl, url |-> url,
                  headers |-> MergeDicts(headers, [Token |-> loader.token]),
                  params |-> params],
     res |-> IF resp.raised THEN Raise("ConnectionError") ELSE Ok(resp)]

Get(loader, url, headers, params, resp) ==
    [request |-> [method |-> "GET", base |-> loader.baseurl, url |-> url,
                  headers |-> MergeDicts(headers, [Token |-> loader.token]),
                  params |-> params],
     res |-> IF resp.raised THEN Raise("ConnectionError")
             ELSE IF resp.status_code # 200
                  THEN RaiseMsg("DataLoaderException",
                                <<loader.baseurl, url, resp.status_code, resp.content>>)
             ELSE Ok(resp)]

-----------------------------------------------------------------------------
(* _query, lines 130-153 *)

Query(loader, query, variables, resp) ==
    [request |-> [method |-> "POST", base |-> loader.baseurl, url |-> <<"gql">>,
                  headers |-> [Token |-> loader.token],
                  json |-> [query |-> query, variables |-> variables]],
     res |-> IF resp.raised THEN Raise("ConnectionError")
             ELSE LET j == RespJson(resp)
                      doc == IF j.ok THEN j.val
                             ELSE IF Catches("JSONDecodeError", j.exc) THEN Bytes
                             ELSE JNull
                  IN IF ~j.ok /\ ~Catches("JSONDecodeError", j.exc) THEN j
                     ELSE IF resp.status_code # 200 \/ doc.t = "bytes"
                          THEN RaiseMsg("RuntimeError", <<resp.status_code, doc>>)
                     ELSE GetItem(doc, "data")]

-----------------------------------------------------------------------------
(* Strings and tables *)

\* A str whose characters matter is the sequence of its characters.
Digits == {"1", "2", "3"}

\* ord(c)
Ord(c) ==
    CASE c = "1" -> 49 [] c = "2" -> 50 [] c = "3" -> 51 [] c = ":" -> 58
      [] c = "O" -> 79 [] c = "P" -> 80 [] c = "a" -> 97 [] c = "b" -> 98

IsIntLiteral(s) == Len(s) > 0 /\ \A i \in DOMAIN s : s[i] \in Digits

RECURSIVE IntOf(_)
\* int(s) for a str of decimal digits
IntOf(s) ==
    IF Len(s) = 0 THEN 0
    ELSE 10 * IntOf(SubSeq(s, 1, Len(s) - 1)) + (Ord(s[Len(s)]) - 48)

\* a < b for two str: by code point, a proper prefix first
StrLess(a, b) ==
    \/ Len(a) < Len(b) /\ SubSeq(b, 1, Len(a)) = a
    \/ \E k \in 1..Len(a) :
          /\ k <= Len(b)
          /\ SubSeq(a, 1, k - 1) = SubSeq(b, 1, k - 1)
          /\ Ord(a[k]) < Ord(b[k])

\* A DataFrame: the row labels, their dtype, the column labels and the
\* cells row by row.
Frame(index, dtype, columns, rows) ==
    [index |-> index, index_dtype |-> dtype, columns |-> columns, rows |-> rows]

EmptyFrame == Frame(<< >>, "object", << >>, << >>)   \* pd.DataFrame()

TransposeNot(df) == df

\* df.transpose(): rows become columns
Transpose(df) ==
    Frame(df.columns, "object", df.index,
          [j \in 1..Len(df.columns) |-> [i \in 1..Len(df.index) |-> df.rows[i][j]]])

\* df.index.astype(int): every label through int(); one that is no integer
\* literal makes the cast fail, which Index.astype reports as TypeError.
IndexAsInt(df) ==
    IF df.index_dtype = "int64" THEN Ok(df)
    ELSE IF \A i \in DOMAIN df.index : IsIntLiteral(df.index[i])
         THEN Ok([df EXCEPT !.index = [i \in DOMAIN df.index |-> IntOf(df.index[i])],
                           !.index_dtype = "int64"])
         ELSE Raise("TypeError")

LabelLess(df, a, b) == IF df.index_dtype = "int64" THEN a < b ELSE StrLess(a, b)

SortIndexNot(df) == df

\* df.sort_index(): rows ascending by label (labels are distinct)
SortIndex(df) ==
    LET n == Len(df.index)
        rank(i) == 1 + Cardinality({j \in 1..n : LabelLess(df, df.index[j], df.index[i])})
        at(r) == CHOOSE i \in 1..n : rank(i) = r
    IN [df EXCEPT !.index = [r \in 1..n |-> df.index[at(r)]],
                  !.rows = [r \in 1..n |-> df.rows[at(r)]]]

\* pd.read_parquet(io.BytesIO(resp.content))
ReadParquet(resp) ==
    IF resp.content.fmt = "parquet" THEN Ok(resp.content.payload)
    ELSE Raise("ArrowInvalid")

\* pd.read_csv(io.BytesIO(resp.content), index_col=0, float_precision="round_trip"):
\* the first line names the columns, the first cell of each later line is
\* the row label; cells keep the decimal text they were sent as.
ReadCsv(resp) ==
    IF resp.content.fmt = "csv"
    THEN LET csv == resp.content.payload IN
         Ok(Frame([i \in 1..(Len(csv) - 1) |-> Head(csv[i + 1])], "object",
                  Tail(Head(csv)),
                  [i \in 1..(Len(csv) - 1) |-> Tail(csv[i + 1])]))
    ELSE Raise("EmptyDataError")     \* a body of zero bytes has no columns to parse

-----------------------------------------------------------------------------
(* The domain operations, lines 175-312, each as a function of the loader, *)
(* the arguments and the server's answer.                                  *)

Outcome(reqs, handled) == [requests |-> reqs, logged |-> handled.logged, res |-> handled.res]

\* for x in v: a list yields its items; None and numbers are not iterable
Iterate(v) ==
    CASE v.t = "arr" -> Ok(v.items)
      [] v.t \in {"null", "num"} -> Raise("TypeError")

RECURSIVE EntriesOf(_, _)
\* lines 179-181, the inner loop for one experiment
EntriesOf(exp, ensembles) ==
    IF Len(ensembles) = 0 THEN Ok(<< >>)
    ELSE LET name == GetItem(exp, "name")
             ens == Head(ensembles)
         IN IF ~name.ok THEN name
            ELSE IF ens.t # "obj" THEN Raise("TypeError")
            ELSE LET rest == EntriesOf(exp, Tail(ensembles)) IN
                 IF ~rest.ok THEN rest
                 ELSE Ok(<<JObj(MergeDicts([name |-> name.val], ens.fields))>> \o rest.val)

RECURSIVE FlattenReversed(_)
FlattenReversed(experiments) ==
    IF Len(experiments) = 0 THEN Ok(<< >>)
    ELSE LET exp == Head(experiments)
             e == GetItem(exp, "ensembles")
             it == IF e.ok THEN Iterate(e.val) ELSE e
             mine == IF it.ok THEN EntriesOf(exp, it.val) ELSE it
         IN IF ~mine.ok THEN mine
            ELSE LET rest == FlattenReversed(Tail(experiments)) IN
                 IF ~rest.ok THEN rest ELSE Ok(rest.val \o mine.val)

RECURSIVE Flatten(_)
\* lines 178-182, the comprehension over the experiments
Flatten(experiments) ==
    IF Len(experiments) = 0 THEN Ok(<< >>)
    ELSE LET exp == Head(experiments)
             e == GetItem(exp, "ensembles")
             it == IF e.ok THEN Iterate(e.val) ELSE e
             mine == IF it.ok THEN EntriesOf(exp, it.val) ELSE it
         IN IF ~mine.ok THEN mine
            ELSE LET rest == Flatten(Tail(experiments)) IN
                 IF ~rest.ok THEN rest ELSE Ok(mine.val \o rest.val)

\* get_all_ensembles, lines 175-185
AllEnsembles(loader, resp) ==
    LET q == Query(loader, "GET_ALL_ENSEMBLES", EmptyMap, resp)
        experiments == IF q.res.ok THEN GetItem(q.res.val, "experiments") ELSE q.res
        it == IF experiments.ok THEN Iterate(experiments.val) ELSE experiments
        flat == IF it.ok THEN Flatten(it.val) ELSE it
        body == IF flat.ok THEN Ok(JArr(flat.val)) ELSE flat
    IN Outcome(<<q.request>>, LogAndDefault("RuntimeError", EmptyList, body))

\* get_ensemble, lines 187-192
Ensemble(loader, ensemble_id, resp) ==
    LET q == Query(loader, "GET_ENSEMBLE", [id |-> ensemble_id], resp)
        body == IF q.res.ok THEN GetItem(q.res.val, "ensemble") ELSE q.res
    IN Outcome(<<q.request>>, LogAndDefault("RuntimeError", EmptyDict, body))

\* return self._get(url=..., params=...).json() inside
\* try/except DataLoaderException, as lines 194-222 and 282-293 have it
GetJson(loader, url, params, empty, resp) ==
    LET g == Get(loader, url, EmptyMap, params, resp)
        body == IF g.res.ok THEN RespJson(g.res.val) ELSE g.res
    IN Outcome(<<g.request>>, LogAndDefault("DataLoaderException", empty, body))

\* get_ensemble_responses, lines 194-199
EnsembleResponses(loader, ensemble_id, resp) ==
    GetJson(loader, <<"ensembles", ensemble_id, "responses">>, NoParams, EmptyDict, resp)

\* get_ensemble_userdata, lines 201-206
EnsembleUserdata(loader, ensemble_id, resp) ==
    GetJson(loader, <<"ensembles", ensemble_id, "userdata">>, NoParams, EmptyDict, resp)

\* get_ensemble_parameters, lines 208-213
EnsembleParameters(loader, ensemble_id, resp) ==
    GetJson(loader, <<"ensembles", ensemble_id, "parameters">>, NoParams, EmptyList, resp)

\* get_record_labels, lines 215-222
RecordLabels(loader, ensemble_id, name, resp) ==
    GetJson(loader, <<"ensembles", ensemble_id, "records", name, "labels">>,
            NoParams, EmptyList, resp)

\* get_experiment_priors, lines 224-231
ExperimentPriors(loader, experiment_id, resp) ==
    LET q == Query(loader, "GET_PRIORS", [id |-> experiment_id], resp)
        experiment == IF q.res.ok THEN GetItem(q.res.val, "experiment") ELSE q.res
        priors == IF experiment.ok THEN GetItem(experiment.val, "priors") ELSE experiment
        body == IF priors.ok THEN JsonLoads(priors.val) ELSE priors
    IN Outcome(<<q.request>>, LogAndDefault("RuntimeError", EmptyDict, body))

\* "::" in s
HasSeparator(s) == \E i \in 1..(Len(s) - 1) : s[i] = ":" /\ s[i + 1] = ":"

SeparatorsAt(s) == {i \in 1..(Len(s) - 1) : s[i] = ":" /\ s[i + 1] = ":"}

SplitLast(s) ==
    LET i == CHOOSE k \in SeparatorsAt(s) : \A j \in SeparatorsAt(s) : j <= k
    IN <<SubSeq(s, 1, i - 1), SubSeq(s, i + 2, Len(s))>>

\* s.split("::", 1): around the leftmost "::"
SplitOnce(s) ==
    LET i == CHOOSE k \in SeparatorsAt(s) : \A j \in SeparatorsAt(s) : k <= j
    IN <<SubSeq(s, 1, i - 1), SubSeq(s, i + 2, Len(s))>>

\* get_ensemble_parameter_data, lines 233-256
EnsembleParameterData(loader, ensemble_id, parameter_name, resp) ==
    LET split == HasSeparator(parameter_name)
        name == IF split THEN SplitOnce(parameter_name)[1] ELSE parameter_name
        params == IF split THEN Params([label |-> SplitOnce(parameter_name)[2]])
                  ELSE Params(EmptyMap)
        g == Get(loader, <<"ensembles", ensemble_id, "records", name>>,
                 [accept |-> "application/x-parquet"], params, resp)
        read == IF g.res.ok THEN ReadParquet(g.res.val) ELSE g.res
        body == IF read.ok THEN Ok(Transpose(read.val)) ELSE read
    IN Outcome(<<g.request>>, LogAndDefault("DataLoaderException", EmptyFrame, body))

\* get_ensemble_record_data, lines 258-280
EnsembleRecordData(loader, ensemble_id, record_name, resp) ==
    LET g == Get(loader, <<"ensembles", ensemble_id, "records", record_name>>,
                 [accept |-> "application/x-parquet"], NoParams, resp)
        read == IF g.res.ok THEN ReadParquet(g.res.val) ELSE g.res
        body == IF read.ok THEN Ok(Transpose(read.val)) ELSE read
        fetched == LogAndDefault("DataLoaderException", EmptyFrame, body)
    IN IF ~body.ok
       THEN Outcome(<<g.request>>, fetched)            \* lines 271-273, or it propagates
       ELSE LET cast == IndexAsInt(body.val)           \* lines 275-278
                df == IF cast.ok THEN cast.val ELSE body.val
            IN IF ~cast.ok /\ ~Catches("TypeError", cast.exc)
               THEN Outcome(<<g.request>>, [logged |-> << >>, res |-> cast])
               ELSE Outcome(<<g.request>>, [logged |-> << >>, res |-> Ok(SortIndex(df))])

\* get_ensemble_record_observations, lines 282-293
EnsembleRecordObservations(loader, ensemble_id, record_name, resp) ==
    GetJson(loader, <<"ensembles", ensemble_id, "records", record_name, "observations">>,
            Params([realization_index |-> 0]), EmptyList, resp)

\* compute_misfit, lines 295-312
ComputeMisfit(loader, ensemble_id, response_name, summary, resp) ==
    LET g == Get(loader, <<"compute", "misfits">>, EmptyMap,
                 Params([ensemble_id |-> ensemble_id, response_name |-> response_name,
                         summary_misfits |-> summary]), resp)
        body == IF g.res.ok THEN ReadCsv(g.res.val) ELSE g.res
    IN Outcome(<<g.request>>, LogAndDefault("DataLoaderException", EmptyFrame, body))

-----------------------------------------------------------------------------
(* SpecOps: what the server may answer, and one call of an operation *)

MaxWireRows == 2        \* rows of a table on the wire
MaxWireColumns == 3     \* columns of a table on the wire
MaxNameLen == 4         \* characters of a parameter name
MaxExperiments == 2     \* experiments in an answer
MaxEnsembles == 2       \* ensembles of one experiment

SeqsUpTo(S, n) == UNION {[1..k -> S] : k \in 0..n}
Distinct(q) == \A i, j \in DOMAIN q : i # j => q[i] # q[j]

StatusCodes == {200, 500}
EnsembleIds == {"ens-1"}
RecordNames == {"FOPR"}

Labels == {<<"2">>, <<"3">>, <<"1", "2">>, <<"a">>, <<"b">>}
LabelSeqs(n) == {q \in SeqsUpTo(Labels, n) : Len(q) > 0 /\ Distinct(q)}

\* The table a record is sent as: labelled rows and columns (pandas writes
\* no duplicate labels), each cell telling where on the wire it stood.
WireTables ==
    { Frame(index, "object", columns,
            [i \in 1..Len(index) |-> [j \in 1..Len(columns) |-> 10 * i + j]]) :
        index \in LabelSeqs(MaxWireRows), columns \in LabelSeqs(MaxWireColumns) }

SampleTable == Frame(<<<<"2">>>>, "object", <<<<"a">>, <<"b">>>>, <<<<21, 22>>>>)

ParameterNames == {q \in SeqsUpTo({"P", "O", ":"}, MaxNameLen) : Len(q) > 0}

SampleCsv == << <<"", "FOPR">>, <<"0", "0.100000001">>, <<"1", "2.5">> >>

RestDocs == {EmptyDict, EmptyList, JNull, JObj([FOPR |-> JStr("uri")]),
             JArr(<<JStr("FOPR")>>)}

\* An ensemble as GET_ALL_ENSEMBLES selects it (lines 55-64)
ListedEnsemble(id) ==
    JObj([id |-> JNum(id), timeCreated |-> JStr("2021"),
          parentEnsemble |-> JNull, childEnsembles |-> EmptyList])
ListedExperiment(name, ensembles) ==
    JObj([name |-> JStr(name), ensembles |-> JArr(ensembles)])
Experiments ==
    { ListedExperiment(name, [i \in DOMAIN ids |-> ListedEnsemble(ids[i])]) :
        name \in {"A", "B"}, ids \in SeqsUpTo({1, 2}, MaxEnsembles) }
Envelope(data) == JObj([data |-> data])

\* Answers to a GraphQL query that are no envelope around the selected data
BrokenDocs ==
    { EmptyList,                                          \* a JSON array
      JStr("Internal Server Error"),                      \* a JSON string
      JObj([errors |-> JArr(<<JStr("boom")>>)]),          \* no data field
      JObj([data |-> JNull, errors |-> JArr(<<JStr("boom")>>)]),
      Envelope(EmptyDict) }                               \* data without the field

AllEnsemblesDocs ==
    {Envelope(JObj([experiments |-> JArr(exps)])) : exps \in SeqsUpTo(Experiments, MaxExperiments)}
    \cup {Envelope(JObj([experiments |-> JNull])),
          Envelope(JObj([experiments |-> JArr(<<JObj([name |-> JStr("A")])>>)])),
          Envelope(JObj([experiments |-> JArr(<<JObj([ensembles |-> JArr(<<ListedEnsemble(1)>>)])>>)]))}

EnsembleDocs ==
    {Envelope(JObj([ensemble |-> JObj([id |-> JNum(1), size |-> JNum(3)])])),
     Envelope(JObj([ensemble |-> JNull]))}

PriorsDocs ==
    {Envelope(JObj([experiment |-> JObj([priors |-> JStr(text)])])) :
        text \in {"{}", "{\"COEFF\": 1}", "[]", "", "{'COEFF': 1}"}}
    \cup {Envelope(JObj([experiment |-> JObj([priors |-> JNull])])),
          Envelope(JObj([experiment |-> JNull]))}

\* What may come back for a request whose good answer is one of `good`:
\* no answer at all, an empty body or an error document under any status,
\* a good body under 200, and a body of `also` under the other statuses.
Responses(good, also) ==
    {NetworkFailure}
    \cup {Answer(status, EmptyBody) : status \in StatusCodes}
    \cup {Answer(status, JsonBody(JObj([detail |-> JStr("error")]))) :
              status \in StatusCodes \ {200}}
    \cup {Answer(200, body) : body \in good}
    \cup {Answer(status, body) : status \in StatusCodes \ {200}, body \in also}

GqlResponses(docs) ==
    Responses({JsonBody(d) : d \in docs \cup BrokenDocs}, {JsonBody(d) : d \in BrokenDocs})
RestResponses ==
    Responses({JsonBody(d) : d \in RestDocs}, {JsonBody(d) : d \in RestDocs})

Loaders == {NewObject("http://a", None), NewObject("http://b", "tok")}

OpsInit ==
    /\ connection_info_map = EmptyMap
    /\ get_info_calls = [p \in ProjectIds |-> 0]
    /\ resolutions = << >>
    /\ _instances = EmptyMap
    /\ objects = << >>
    /\ constructions = << >>
    /\ pc = << >>
    /\ frame = << >>
    /\ self \in Loaders
    /\ op = [name |-> "none"]
    /\ response = Answer(0, EmptyBody)
    /\ requests = << >>
    /\ logged = << >>
    /\ ret = Ok(JNull)

\* No operation has been called yet.
Ready == op.name = "none"

\* One call: the operation runs to its end against the answer chosen.
Call(called, resp, outcome) ==
    /\ op' = called
    /\ response' = resp
    /\ requests' = outcome.requests
    /\ logged' = outcome.logged
    /\ ret' = outcome.res
    /\ UNCHANGED self
    /\ UNCHANGED <<regVars, raceVars>>

get_all_ensembles ==
    /\ Ready
    /\ \E resp \in GqlResponses(AllEnsemblesDocs) :
        Call([name |-> "get_all_ensembles"], resp, AllEnsembles(self, resp))

get_ensemble ==
    /\ Ready
    /\ \E id \in EnsembleIds, resp \in GqlResponses(EnsembleDocs) :
        Call([name |-> "get_ensemble", ensemble_id |-> id], resp, Ensemble(self, id, resp))

get_ensemble_responses ==
    /\ Ready
    /\ \E id \in EnsembleIds, resp \in RestResponses :
        Call([name |-> "get_ensemble_responses", ensemble_id |-> id], resp,
             EnsembleResponses(self, id, resp))

get_ensemble_userdata ==
    /\ Ready
    /\ \E id \in EnsembleIds, resp \in RestResponses :
        Call([name |-> "get_ensemble_userdata", ensemble_id |-> id], resp,
             EnsembleUserdata(self, id, resp))

get_ensemble_parameters ==
    /\ Ready
    /\ \E id \in EnsembleIds, resp \in RestResponses :
        Call([name |-> "get_ensemble_parameters", ensemble_id |-> id], resp,
             EnsembleParameters(self, id, resp))

get_record_labels ==
    /\ Ready
    /\ \E id \in EnsembleIds, name \in RecordNames, resp \in RestResponses :
        Call([name |-> "get_record_labels", ensemble_id |-> id, record_name |-> name], resp,
             RecordLabels(self, id, name, resp))

get_experiment_priors ==
    /\ Ready
    /\ \E id \in EnsembleIds, resp \in GqlResponses(PriorsDocs) :
        Call([name |-> "get_experiment_priors", experiment_id |-> id], resp,
             ExperimentPriors(self, id, resp))

get_ensemble_parameter_data ==
    /\ Ready
    /\ \E id \in EnsembleIds, p \in ParameterNames,
       resp \in Responses({ParquetBody(SampleTable)}, {ParquetBody(SampleTable)}) :
        Call([name |-> "get_ensemble_parameter_data", ensemble_id |-> id,
              parameter_name |-> p], resp,
             EnsembleParameterData(self, id, p, resp))

get_ensemble_record_data ==
    /\ Ready
    /\ \E id \in EnsembleIds, name \in RecordNames,
       resp \in Responses({ParquetBody(t) : t \in WireTables}, {ParquetBody(SampleTable)}) :
        Call([name |-> "get_ensemble_record_data", ensemble_id |-> id,
              record_name |-> name], resp,
             EnsembleRecordData(self, id, name, resp))

get_ensemble_record_observations ==
    /\ Ready
    /\ \E id \in EnsembleIds, name \in RecordNames, resp \in RestResponses :
        Call([name |-> "get_ensemble_record_observations", ensemble_id |-> id,
              record_name |-> name], resp,
             EnsembleRecordObservations(self, id, name, resp))

compute_misfit ==
    /\ Ready
    /\ \E id \in EnsembleIds, name \in RecordNames, summary \in BOOLEAN,
       resp \in Responses({CsvBody(SampleCsv)}, {CsvBody(SampleCsv)}) :
        Call([name |-> "compute_misfit", ensemble_id |-> id, response_name |-> name,
              summary |-> summary], resp,
             ComputeMisfit(self, id, name, summary, resp))

OpsNext ==
    \/ get_all_ensembles
    \/ get_ensemble
    \/ get_ensemble_responses
    \/ get_ensemble_userdata
    \/ get_ensemble_parameters
    \/ get_record_labels
    \/ get_experiment_priors
    \/ get_ensemble_parameter_data
    \/ get_ensemble_record_data
    \/ get_ensemble_record_observations
    \/ compute_misfit

SpecOps == OpsInit /\ [][OpsNext]_vars

-----------------------------------------------------------------------------
(* SpecRace: callers of get_data_loader (lines 315-316) whose steps        *)
(* interleave.  Nothing in the module takes a lock, so another caller may  *)
(* run between any two lines of get_connection_info and of __new__.        *)

MaxRaceCalls == 3       \* calls of get_data_loader begun, over all callers

Callers == {"c1", "c2"}

RaceProjectIds == {None, "proj"}
RaceProvidedInfos == {[baseurl |-> "http://a", auth |-> <<"__token__", t>>] : t \in {"tok", "tok2"}}

NoFrame == [project_id |-> None, info |-> [baseurl |-> "", auth |-> ""],
            key |-> <<"", "">>, loader |-> 0]

RaceInit ==
    /\ connection_info_map = EmptyMap
    /\ get_info_calls = [p \in ProjectIds |-> 0]
    /\ resolutions = << >>
    /\ _instances = EmptyMap
    /\ objects = << >>
    /\ constructions = << >>
    /\ self = NewObject("http://a", None)
    /\ op = [name |-> "none"]
    /\ response = Answer(0, EmptyBody)
    /\ requests = << >>
    /\ logged = << >>
    /\ ret = Ok(JNull)
    /\ pc = [c \in Callers |-> "idle"]
    /\ frame = [c \in Callers |-> NoFrame]

CallsBegun == Len(constructions) + Cardinality({c \in Callers : pc[c] # "idle"})

Goto(c, line) == pc' = [pc EXCEPT ![c] = line]

\* a caller enters get_data_loader(project_id)
race_call(c) ==
    /\ pc[c] = "idle"
    /\ CallsBegun < MaxRaceCalls
    /\ \E project_id \in RaceProjectIds :
          frame' = [frame EXCEPT ![c] = [NoFrame EXCEPT !.project_id = project_id]]
    /\ Goto(c, "line18")
    /\ UNCHANGED <<regVars, opsVars>>

\* line 18: if project_id not in connection_info_map
race_info_check(c) ==
    /\ pc[c] = "line18"
    /\ IF InfoCached(frame[c].project_id, connection_info_map)
       THEN Goto(c, "line23") ELSE Goto(c, "line19")
    /\ UNCHANGED <<regVars, opsVars, frame>>

\* lines 19-20: info = get_info(project_id); info["auth"] = info["auth"][1]
race_info_lookup(c) ==
    /\ pc[c] = "line19"
    /\ \E provided \in RaceProvidedInfos :
          frame' = [frame EXCEPT ![c].info = [provided EXCEPT !.auth = provided.auth[2]]]
    /\ get_info_calls' = [get_info_calls EXCEPT ![frame[c].project_id] = @ + 1]
    /\ Goto(c, "line21")
    /\ UNCHANGED <<connection_info_map, resolutions, _instances, objects, constructions,
                   opsVars>>

\* line 21: connection_info_map[project_id] = info
race_info_store(c) ==
    /\ pc[c] = "line21"
    /\ connection_info_map' =
          [p \in DOMAIN connection_info_map \cup {frame[c].project_id} |->
              IF p = frame[c].project_id THEN frame[c].info ELSE connection_info_map[p]]
    /\ Goto(c, "line23")
    /\ UNCHANGED <<get_info_calls, resolutions, _instances, objects, constructions,
                   opsVars, frame>>

\* line 23, then line 316: DataLoader(*info.values())
race_info_return(c) ==
    /\ pc[c] = "line23"
    /\ LET info == connection_info_map[frame[c].project_id] IN
       frame' = [frame EXCEPT ![c].info = info, ![c].key = <<info.baseurl, info.auth>>]
    /\ Goto(c, "line120")
    /\ UNCHANGED <<regVars, opsVars>>

\* line 120: if (baseurl, token) in cls._instances
race_new_check(c) ==
    /\ pc[c] = "line120"
    /\ IF InstanceKnown(frame[c].key, _instances)
       THEN Goto(c, "line121") ELSE Goto(c, "line123")
    /\ UNCHANGED <<regVars, opsVars, frame>>

\* line 121: return cls._instances[(baseurl, token)]
race_new_reuse(c) ==
    /\ pc[c] = "line121"
    /\ constructions' = Append(constructions,
          [key |-> frame[c].key, loader |-> _instances[frame[c].key], created |-> FALSE])
    /\ Goto(c, "idle")
    /\ frame' = [frame EXCEPT ![c] = NoFrame]
    /\ UNCHANGED <<connection_info_map, get_info_calls, resolutions, _instances, objects,
                   opsVars>>

\* lines 123-126: loader = super().__new__(cls) and its fields
race_new_create(c) ==
    /\ pc[c] = "line123"
    /\ objects' = Append(objects, NewObject(frame[c].key[1], frame[c].key[2]))
    /\ frame' = [frame EXCEPT ![c].loader = Len(objects) + 1]
    /\ Goto(c, "line127")
    /\ UNCHANGED <<connection_info_map, get_info_calls, resolutions, _instances,
                   constructions, opsVars>>

\* lines 127-128: cls._instances[(baseurl, token)] = loader; return loader
race_new_insert(c) ==
    /\ pc[c] = "line127"
    /\ _instances' = [k \in DOMAIN _instances \cup {frame[c].key} |->
                         IF k = frame[c].key THEN frame[c].loader ELSE _instances[k]]
    /\ constructions' = Append(constructions,
          [key |-> frame[c].key, loader |-> frame[c].loader, created |-> TRUE])
    /\ Goto(c, "idle")
    /\ frame' = [frame EXCEPT ![c] = NoFrame]
    /\ UNCHANGED <<connection_info_map, get_info_calls, resolutions, objects, opsVars>>

RaceNext ==
    \E c \in Callers :
        \/ race_call(c)
        \/ race_info_check(c)
        \/ race_info_lookup(c)
        \/ race_info_store(c)
        \/ race_info_return(c)
        \/ race_new_check(c)
        \/ race_new_reuse(c)
        \/ race_new_create(c)
        \/ race_new_insert(c)

SpecRace == RaceInit /\ [][RaceNext]_vars

-----------------------------------------------------------------------------
(* Properties of Spec: the instance table and the connection cache *)

\* the first construction with the key of construction i
FirstWithKey(i) ==
    CHOOSE f \in DOMAIN constructions :
        /\ constructions[f].key = constructions[i].key
        /\ \A g \in 1..(f - 1) : constructions[g].key # constructions[i].key

\* the first resolution of the project id of resolution i
FirstForProject(i) ==
    CHOOSE f \in DOMAIN resolutions :
        /\ resolutions[f].project_id = resolutions[i].project_id
        /\ \A g \in 1..(f - 1) : resolutions[g].project_id # resolutions[i].project_id

\* C1: after any sequence of constructions, two constructions return the
\* same object exactly when they were given the same (baseurl, token); the
\* object returned for a key is the one the first construction with that key
\* created, it carries that key, and no later construction creates another.
SingletonByKey ==
    \A i, j \in DOMAIN constructions :
        /\ (constructions[i].key = constructions[j].key)
              <=> (constructions[i].loader = constructions[j].loader)
        /\ constructions[i].loader = constructions[FirstWithKey(i)].loader
        /\ constructions[i].created <=> (i = FirstWithKey(i))
        /\ objects[constructions[i].loader].baseurl = constructions[i].key[1]
        /\ objects[constructions[i].loader].token = constructions[i].key[2]
        /\ _instances[constructions[i].key] = constructions[i].loader

\* C1's case: a key constructed twice and another key constructed besides
SingletonByKeyWitness ==
    \E i, j, k \in DOMAIN constructions :
        /\ i < j
        /\ constructions[i].key = constructions[j].key
        /\ constructions[k].key # constructions[i].key
        /\ constructions[k].key[1] = constructions[i].key[1]

\* C7: after any sequence of get_connection_info calls, get_info has been
\* called exactly once for every project id that appeared (None included)
\* and never for another; only the first call with an id looks it up, every
\* call returns what that first call stored, and the cache still holds it.
OneLookupPerProject ==
    /\ \A p \in ProjectIds :
          get_info_calls[p] =
              IF \E i \in DOMAIN resolutions : resolutions[i].project_id = p THEN 1 ELSE 0
    /\ DOMAIN connection_info_map =
          {resolutions[i].project_id : i \in DOMAIN resolutions}
    /\ \A i \in DOMAIN resolutions :
          /\ resolutions[i].looked_up <=> (i = FirstForProject(i))
          /\ resolutions[i].info = resolutions[FirstForProject(i)].info
          /\ connection_info_map[resolutions[i].project_id] = resolutions[i].info

\* C7's case: None resolved twice and a named project resolved as well
OneLookupPerProjectWitness ==
    \E i, j, k \in DOMAIN resolutions :
        /\ i < j
        /\ resolutions[i].project_id = None
        /\ resolutions[j].project_id = None
        /\ resolutions[k].project_id # None

-----------------------------------------------------------------------------
(* Properties of SpecOps: the domain operations *)

RestOperations ==
    {"get_ensemble_responses", "get_ensemble_userdata", "get_ensemble_parameters",
     "get_record_labels", "get_ensemble_parameter_data", "get_ensemble_record_data",
     "get_ensemble_record_observations", "compute_misfit"}
GraphqlOperations == {"get_all_ensembles", "get_ensemble", "get_experiment_priors"}

\* the empty value of the shape an operation declares
DeclaredEmpty(name) ==
    CASE name \in {"get_ensemble", "get_ensemble_responses", "get_ensemble_userdata",
                   "get_experiment_priors"} -> EmptyDict
      [] name \in {"get_all_ensembles", "get_ensemble_parameters", "get_record_labels",
                   "get_ensemble_record_observations"} -> EmptyList
      [] name \in {"get_ensemble_parameter_data", "get_ensemble_record_data",
                   "compute_misfit"} -> EmptyFrame

Called(name) == op.name = name
Answered(status) == ~response.raised /\ response.status_code = status
WireTable == response.content.payload

\* The call met one of the failures C2 lists: the HTTP call raised, the
\* status is not 200, or the body is nothing the operation can decode.
FailureMet ==
    \/ response.raised
    \/ response.status_code # 200
    \/ response.content.fmt = "empty"
    \/ /\ op.name \in GraphqlOperations
       /\ response.content.fmt = "json"
       /\ response.content.payload \in BrokenDocs

\* C2: no domain operation raises to its caller; on every failure it logs
\* the error and returns the empty value of its declared shape.
NoOperationRaises ==
    ~Ready =>
        /\ ret.ok
        /\ FailureMet => (ret.val = DeclaredEmpty(op.name) /\ Len(logged) = 1)

\* C3: a REST-backed operation whose GET is answered with a status other
\* than 200 returns (does not raise) the empty value of its declared shape,
\* whatever the body holds, has logged exactly one error, the one _get
\* raised, and has issued exactly one request.
Non200GivesEmpty ==
    (op.name \in RestOperations /\ ~response.raised /\ response.status_code # 200) =>
        /\ ret = Ok(DeclaredEmpty(op.name))
        /\ Len(logged) = 1
        /\ logged[1].exc = "DataLoaderException"
        /\ logged[1].msg[3] = response.status_code
        /\ Len(requests) = 1
        /\ requests[1].method = "GET"

\* C3's case: a 500 whose body would not decode, answered to the operation
\* that reads a table
Non200GivesEmptyWitness ==
    /\ Answered(500)
    /\ response.content.fmt = "empty"
    /\ Called("get_ensemble_record_data")

\* the position of label x in the sequence q of distinct labels
PositionIn(q, x) == CHOOSE k \in DOMAIN q : q[k] = x

Fetched == Called("get_ensemble_record_data") /\ Answered(200)
                /\ response.content.fmt = "parquet"

AllIntLiterals(q) == \A i \in DOMAIN q : IsIntLiteral(q[i])
NoIntLiteral(q) == \A i \in DOMAIN q : ~IsIntLiteral(q[i])

\* C4 as stated, under either reading of "row indices" (the labels of the
\* wire table's rows, or the row labels of the table the operation hands
\* back, which are the wire table's column labels): when the labels are
\* non-numeric strings the call does not fail and the returned rows stand in
\* the order the labels had, with the string index type.
NonNumericKeepsOrder ==
    (Fetched /\ NoIntLiteral(WireTable.index) /\ NoIntLiteral(WireTable.columns)) =>
        /\ ret.ok
        /\ ret.val.index_dtype = "object"
        /\ ret.val.index = WireTable.index \/ ret.val.index = WireTable.columns

\* C4 amended: when some column label of the wire table is no integer
\* literal, the call does not fail and logs nothing; the returned table's
\* row labels are the wire table's column labels, still strings, in
\* ascending string order (not in the order they had); each row holds the
\* cells of the wire column with its label; the columns are the wire rows.
NonNumericSortedAsStrings ==
    (Fetched /\ ~AllIntLiterals(WireTable.columns)) =>
        /\ ret.ok
        /\ logged = << >>
        /\ ret.val.index_dtype = "object"
        /\ Len(ret.val.index) = Len(WireTable.columns)
        /\ \A r \in DOMAIN ret.val.index :
              /\ \E j \in DOMAIN WireTable.columns : WireTable.columns[j] = ret.val.index[r]
              /\ r > 1 => StrLess(ret.val.index[r - 1], ret.val.index[r])
              /\ \A i \in DOMAIN WireTable.index :
                    ret.val.rows[r][i] =
                        WireTable.rows[i][PositionIn(WireTable.columns, ret.val.index[r])]
        /\ ret.val.columns = WireTable.index

\* C4's case: non-numeric column labels sent in descending order
NonNumericSortedAsStringsWitness ==
    /\ Fetched
    /\ WireTable.columns = <<<<"b">>, <<"a">>>>
    /\ ret.ok
    /\ ret.val.index = <<<<"a">>, <<"b">>>>

\* C5 as stated: when the row labels of the wire table are numeric strings,
\* the returned table has an integer index, its rows ascending by the
\* integer value of those labels, each row with the cells it had on the wire.
WireRowsSortedAsIntegers ==
    (Fetched /\ AllIntLiterals(WireTable.index)) =>
        /\ ret.ok
        /\ ret.val.index_dtype = "int64"
        /\ Len(ret.val.index) = Len(WireTable.index)
        /\ \A r \in DOMAIN ret.val.index :
              /\ \E i \in DOMAIN WireTable.index :
                    /\ IntOf(WireTable.index[i]) = ret.val.index[r]
                    /\ ret.val.rows[r] = WireTable.rows[i]
              /\ r > 1 => ret.val.index[r - 1] < ret.val.index[r]

\* C5 amended: when the column labels of the wire table (which the
\* transposition makes the row labels) are numeric strings, the returned
\* table has an integer index holding the integer values of those labels in
\* ascending order, each row with the cells of the wire column of that
\* label; the wire table's row labels become the columns, as they were.
WireColumnsSortedAsIntegers ==
    (Fetched /\ AllIntLiterals(WireTable.columns)) =>
        /\ ret.ok
        /\ logged = << >>
        /\ ret.val.index_dtype = "int64"
        /\ Len(ret.val.index) = Len(WireTable.columns)
        /\ \A r \in DOMAIN ret.val.index :
              /\ r > 1 => ret.val.index[r - 1] < ret.val.index[r]
              /\ \E j \in DOMAIN WireTable.columns :
                    /\ IntOf(WireTable.columns[j]) = ret.val.index[r]
                    /\ \A i \in DOMAIN WireTable.index :
                          ret.val.rows[r][i] = WireTable.rows[i][j]
        /\ ret.val.columns = WireTable.index

\* C5's case: the labels "3", "12", "2" come back as 2, 3, 12
WireColumnsSortedAsIntegersWitness ==
    /\ Fetched
    /\ WireTable.columns = <<<<"3">>, <<"1", "2">>, <<"2">>>>
    /\ Len(WireTable.index) = 2
    /\ ret.ok
    /\ ret.val.index = <<2, 3, 12>>

\* the body of the answer, when it is a JSON text
IsJsonObject == response.content.fmt = "json" /\ response.content.payload.t = "obj"

\* C6: whenever the status is not 200 or the body is not a JSON object
\* (bytes that do not decode, or a JSON value that is no object), _query
\* raises the RuntimeError the GraphQL-backed operations catch, its message
\* made of the status code and the payload: so the operation logs that
\* error and returns its empty value.  A call that ends otherwise had status
\* 200 and a JSON object for a body.
QueryErrorUnlessObject ==
    (op.name \in GraphqlOperations /\ ~response.raised) =>
        /\ (response.status_code # 200 \/ ~IsJsonObject) =>
              /\ ret = Ok(DeclaredEmpty(op.name))
              /\ Len(logged) = 1
              /\ logged[1].exc = "RuntimeError"
              /\ logged[1].msg[1] = response.status_code
        /\ logged = << >> => (response.status_code = 200 /\ IsJsonObject)

\* C8: get_ensemble_parameter_data issues exactly one GET.  With "::" in
\* the name, the path ends in the part before the leftmost "::" and the
\* query parameters are exactly label = the part after it; without, the
\* path ends in the whole name and no parameter is sent.
ParameterRequest ==
    Called("get_ensemble_parameter_data") =>
        /\ Len(requests) = 1
        /\ requests[1].method = "GET"
        /\ requests[1].base = self.baseurl
        /\ LET p == op.parameter_name
               url == requests[1].url
               name == url[4]
               sent == requests[1].params.items
           IN /\ Len(url) = 4
              /\ SubSeq(url, 1, 3) = <<"ensembles", op.ensemble_id, "records">>
              /\ IF \E i \in 1..(Len(p) - 1) : p[i] = ":" /\ p[i + 1] = ":"
                 THEN /\ DOMAIN sent = {"label"}
                      /\ p = name \o <<":", ":">> \o sent.label
                      /\ \A i \in 1..Len(name) : ~(p[i] = ":" /\ p[i + 1] = ":")
                 ELSE /\ name = p
                      /\ DOMAIN sent = {}

\* C8's case: a name with two places to split at, and a name with none
ParameterRequestWitness ==
    /\ Called("get_ensemble_parameter_data")
    /\ op.parameter_name = <<"P", ":", ":", ":">>
    /\ requests[1].params.items.label = <<":">>
    /\ requests[1].url[4] = <<"P">>

RECURSIVE EnsemblesBefore(_, _)
\* how many ensembles the experiments before position e hold
EnsemblesBefore(experiments, e) ==
    IF e <= 1 THEN 0
    ELSE EnsemblesBefore(experiments, e - 1)
            + Len(experiments[e - 1].fields.ensembles.items)

\* the answer is an envelope around experiments that each have a name and
\* a list of ensembles, every ensemble an object
HasField(v, key) == v.t = "obj" /\ key \in DOMAIN v.fields
ListedOk ==
    /\ Called("get_all_ensembles")
    /\ Answered(200)
    /\ response.content.fmt = "json"
    /\ HasField(response.content.payload, "data")
    /\ HasField(response.content.payload.fields.data, "experiments")
    /\ LET exps == response.content.payload.fields.data.fields.experiments IN
       /\ exps.t = "arr"
       /\ \A e \in DOMAIN exps.items :
             /\ HasField(exps.items[e], "name")
             /\ HasField(exps.items[e], "ensembles")
             /\ exps.items[e].fields.ensembles.t = "arr"
             /\ \A i \in DOMAIN exps.items[e].fields.ensembles.items :
                   exps.items[e].fields.ensembles.items[i].t = "obj"

\* C9: on a good answer get_all_ensembles returns one entry per ensemble,
\* experiment after experiment and, within one, ensemble after ensemble;
\* each entry has the ensemble's fields and the name of its experiment.
EnsemblesFlattened ==
    ListedOk =>
        LET exps == response.content.payload.fields.data.fields.experiments.items IN
        /\ ret.ok
        /\ logged = << >>
        /\ ret.val.t = "arr"
        /\ Len(ret.val.items) = EnsemblesBefore(exps, Len(exps) + 1)
        /\ \A e \in DOMAIN exps :
              \A i \in DOMAIN exps[e].fields.ensembles.items :
                  LET ens == exps[e].fields.ensembles.items[i].fields
                      entry == ret.val.items[EnsemblesBefore(exps, e) + i].fields
                  IN /\ DOMAIN entry = DOMAIN ens \cup {"name"}
                     /\ entry.name = exps[e].fields.name
                     /\ \A k \in DOMAIN ens : entry[k] = ens[k]

\* C9's case: experiment A with ensemble 1, then B with ensembles 2 and 1
EnsemblesFlattenedWitness ==
    /\ ListedOk
    /\ ret.ok
    /\ Len(ret.val.items) = 3
    /\ ret.val.items[1].fields.name = JStr("A")
    /\ ret.val.items[2].fields.name = JStr("B")
    /\ ret.val.items[2].fields.id = JNum(2)
    /\ ret.val.items[3].fields.id = JNum(1)

-----------------------------------------------------------------------------
(* Properties of SpecRace: interleaved callers *)

KeyOf(object) == <<object.baseurl, object.token>>
CreatedFor(key) == {i \in DOMAIN objects : KeyOf(objects[i]) = key}
InsertionsFor(key) ==
    {i \in DOMAIN constructions : constructions[i].key = key /\ constructions[i].created}

\* C10 as stated: with the membership check and the insertion as separate
\* steps of interleaved callers, at most one DataLoader is ever created for
\* a key, every call with that key is handed that one, and the table entry
\* of a key is written once.
WriteOnceUnderInterleaving ==
    /\ \A i, j \in DOMAIN objects : KeyOf(objects[i]) = KeyOf(objects[j]) => i = j
    /\ \A i, j \in DOMAIN constructions :
          constructions[i].key = constructions[j].key =>
              /\ constructions[i].loader = constructions[j].loader
              /\ (constructions[i].created /\ constructions[j].created) => i = j

\* C10 amended: interleaved callers can each pass the membership check
\* before any of them inserts, and each then creates a DataLoader and writes
\* it over the entry.  What holds in every state: no caller creates more than
\* one DataLoader for a key, so at most one per caller exists; every object
\* handed out for a key carries that key; and the table entry of a key is
\* the object inserted last.
OnePerCallerUnderInterleaving ==
    /\ \A i \in DOMAIN objects :
          Cardinality(CreatedFor(KeyOf(objects[i]))) <= Cardinality(Callers)
    /\ \A i \in DOMAIN constructions :
          KeyOf(objects[constructions[i].loader]) = constructions[i].key
    /\ \A key \in DOMAIN _instances :
          /\ InsertionsFor(key) # {}
          /\ LET last == CHOOSE i \in InsertionsFor(key) : \A j \in InsertionsFor(key) : j <= i
             IN _instances[key] = constructions[last].loader

\* C10's case: two callers were each handed a DataLoader of their own for
\* one key, the second insertion replacing the first
OnePerCallerUnderInterleavingWitness ==
    \E i, j \in DOMAIN constructions :
        /\ i < j
        /\ constructions[i].key = constructions[j].key
        /\ constructions[i].created
        /\ constructions[j].created
        /\ constructions[i].loader # constructions[j].loader
        /\ _instances[constructions[j].key] = constructions[j].loader

====
